---------------------------- MODULE Spec2Model ----------------------------
(***************************************************************************)
(* DiskSort<T, Key> of include/chia/DiskSort.hpp: an external bucket sort.  *)
(* Records are added to on-disk buckets chosen by the high bits of their   *)
(* key (add, flush, finish) and are streamed back in key order by a        *)
(* two-stage pipeline (read, read_bucket, sort_bucket, sort_block).        *)
(*                                                                         *)
(* Bytes are modelled as naturals.  A record T is [key, id]; T::write      *)
(* lays it out as disk_size bytes (key, id, zero padding) and T::read      *)
(* parses the same layout.  Files are byte sequences.                      *)
(***************************************************************************)
EXTENDS Naturals, Sequences, FiniteSets, Bags, TLC

(* ------------------------------ bounds -------------------------------- *)

\* Number of records the caller may add successfully.
MaxAdds == 3

\* The widest key, in bits, and the number of records added when the bucket
\* index is explored over all key sizes and bucket counts (IndexSpec).
MaxKeySize == 4
MaxIndexAdds == 2

\* Number of records the caller may add when only add() and finish() are
\* explored (IngestSpec).
MaxIngestAdds == 4

(* ------------------- sizes of the program (scaled) --------------------- *)

\* T::disk_size, the serialized size of one record in bytes.
disk_size == 2

\* sizeof(bucket.buffer): two records fit, with one spare byte.
BufSize == 5

\* N, the number of records read_bucket reads per fread (65536 in the source).
N == 2

\* Constructor arguments the model is explored for.
KeySizes == {2}
LogNumBuckets == {0, 1, 2}
NumThreads == {1, 2}
\* Arguments M of read() the model is explored for.
Ms == {1, 2, 3}

VARIABLES
    key_size,         \* DiskSort::key_size
    log_num_buckets,  \* DiskSort::log_num_buckets
    num_threads,      \* DiskSort::num_threads
    buckets,          \* DiskSort::buckets, indexed 0 .. 2^log_num_buckets - 1
    is_finished,      \* DiskSort::is_finished
    added,            \* history: the records add() has accepted, in call order
    last,             \* history: the last call, its argument and the exception it threw
    io_fault,         \* history: the I/O step that failed during the last call ("none": none)
    phase,            \* "ingest", "reading" (inside read()), "done" (read() returned),
                      \* "cleared" (clear() returned) or "crashed" (the process died)
    M,                \* read()'s argument M (0 before read() is called)
    next_take,        \* read(): the loop variable i of the take_copy loop
    jobs,             \* read_pool: the submitted jobs in submission order, with state and result
    sort_queue,       \* sort_thread: the bucket results waiting for sort_bucket
    cur,              \* sort_thread: the sort_bucket call in progress and its sort_pool
    output            \* the output units forwarded to the downstream consumer, in order

config == <<key_size, log_num_buckets, num_threads>>
pipeline == <<M, next_take, jobs, sort_queue, cur, output>>

vars == <<key_size, log_num_buckets, num_threads, buckets, is_finished,
          added, last, io_fault, phase, M, next_take, jobs, sort_queue, cur, output>>

(* ------------------------------ helpers ------------------------------- *)

Pow2(n) == 2 ^ n

\* x >> n on unsigned integers.
Shr(x, n) == x \div Pow2(n)

NumBuckets == Pow2(log_num_buckets)

BucketIds == 0 .. (NumBuckets - 1)

\* Key{}(entry)
Key(entry) == entry.key

\* entry.write(dst): the disk_size bytes of a record.
EntryWrite(entry) ==
    [i \in 1 .. disk_size |-> IF i = 1 THEN entry.key ELSE IF i = 2 THEN entry.id ELSE 0]

\* entry.read(src): the record held in disk_size bytes.
EntryRead(bytes) == [key |-> bytes[1], id |-> bytes[2]]

\* The keys a caller may pass: every key of key_size bits, and the first wider one.
CallerKeys == 0 .. Pow2(key_size)

NoError == "none"

\* std::runtime_error: an I/O failure.  It is fatal: the run is aborted and no
\* further operation of the engine is carried out.
IOErrors == {"fopen() failed", "fwrite() failed", "fread() failed"}

Fatal == last.err \in IOErrors

Call(op, key, err) == [op |-> op, key |-> key, err |-> err]

(* ------------------------------ bucket_t ------------------------------ *)

\* A bucket after construction: file opened "wb" (created empty), nothing
\* buffered.  `file` is the handle, `exists` and `data` are the file on disk.
NewBucket ==
    [buffer      |-> [i \in 1 .. BufSize |-> 0],
     offset      |-> 0,
     num_entries |-> 0,
     file        |-> "wb",
     exists      |-> TRUE,
     data        |-> << >>]

\* A bucket whose fopen(file_name, "wb") failed or was never reached.
UnopenedBucket == [NewBucket EXCEPT !.file = "null", !.exists = FALSE]

\* The values fwrite(buffer, 1, offset, file) may return.
FwriteReturns(bucket) == 0 .. bucket.offset

\* bucket_t::flush() when fwrite returns n: n bytes reach the file; a short
\* count throws before the offset is reset.
FlushThrows(bucket, n) == n # bucket.offset

\* Faulty variant: fwrite is given sizeof(buffer) instead of offset.
Flush_WholeBuffer(bucket, n) ==
    [bucket EXCEPT !.data = @ \o bucket.buffer,
                   !.offset = IF n # bucket.offset THEN @ ELSE 0]

Flush(bucket, n) ==
    [bucket EXCEPT !.data = @ \o SubSeq(bucket.buffer, 1, n),
                   !.offset = IF n # bucket.offset THEN @ ELSE 0]

(* ------------------------------- add ---------------------------------- *)

\* Faulty variant: the index is masked to the number of buckets, which hides a
\* key wider than key_size bits.
AddIndex_Masked(entry) == Shr(Key(entry), key_size - log_num_buckets) % NumBuckets

\* Faulty variant: the index is taken from the low bits of the key.
AddIndex_LowBits(entry) == Key(entry) % NumBuckets

\* const size_t index = Key{}(entry) >> (key_size - log_num_buckets)
AddIndex(entry) == Shr(Key(entry), key_size - log_num_buckets)

\* Faulty variant: add() does not test is_finished.
AddReadOnly_Never == FALSE

\* if(is_finished) throw std::logic_error("read only")
AddReadOnly == is_finished

\* if(index >= buckets.size()) throw std::logic_error("index out of range")
AddOutOfRange(index) == index >= NumBuckets

\* Faulty variant: the test leaves out the size of the record to be written.
AddMustFlush_NoSize(bucket) == bucket.offset > BufSize

\* if(bucket.offset + T::disk_size > sizeof(bucket.buffer))
AddMustFlush(bucket) == bucket.offset + disk_size > BufSize

\* Faulty variant: the record is written at the start of the buffer, not at the
\* fill offset.
AddWrite_AtStart(bucket, entry) ==
    [bucket EXCEPT
        !.buffer = [i \in 1 .. BufSize |->
                        IF i <= disk_size THEN EntryWrite(entry)[i] ELSE bucket.buffer[i]],
        !.offset = @ + disk_size,
        !.num_entries = @ + 1]

\* bucket.offset += entry.write(bucket.buffer + bucket.offset); bucket.num_entries++
AddWrite(bucket, entry) ==
    [bucket EXCEPT
        !.buffer = [i \in 1 .. BufSize |->
                        IF i > bucket.offset /\ i <= bucket.offset + disk_size
                        THEN EntryWrite(entry)[i - bucket.offset]
                        ELSE bucket.buffer[i]],
        !.offset = @ + disk_size,
        !.num_entries = @ + 1]

\* Faulty variant: when the target bucket's buffer is full, add() flushes the
\* buffers of all buckets.
Add_FlushAll(entry) ==
    /\ phase = "ingest"
    /\ ~Fatal
    /\ ~AddReadOnly
    /\ ~AddOutOfRange(AddIndex(entry))
    /\ LET index == AddIndex(entry)
           full == AddMustFlush(buckets[index])
           flushed == [b \in BucketIds |->
                          IF full THEN Flush(buckets[b], buckets[b].offset) ELSE buckets[b]]
       IN  buckets' = [flushed EXCEPT ![index] = AddWrite(flushed[index], entry)]
    /\ last' = Call("add", Key(entry), NoError)
    /\ io_fault' = "none"
    /\ added' = Append(added, entry)
    /\ UNCHANGED <<config, is_finished, phase, pipeline>>

Add(entry) ==
    /\ phase = "ingest"
    /\ ~Fatal
    /\ UNCHANGED <<config, is_finished, phase, pipeline>>
    /\ IF AddReadOnly
       THEN /\ last' = Call("add", Key(entry), "read only")
            /\ io_fault' = "none"
            /\ UNCHANGED <<buckets, added>>
       ELSE IF AddOutOfRange(AddIndex(entry))
       THEN /\ last' = Call("add", Key(entry), "index out of range")
            /\ io_fault' = "none"
            /\ UNCHANGED <<buckets, added>>
       ELSE LET index == AddIndex(entry)
                bucket == buckets[index]
            IN  IF AddMustFlush(bucket)
                THEN \E n \in FwriteReturns(bucket) :
                        IF FlushThrows(bucket, n)
                        THEN /\ buckets' = [buckets EXCEPT ![index] = Flush(bucket, n)]
                             /\ last' = Call("add", Key(entry), "fwrite() failed")
                             /\ io_fault' = "fwrite"
                             /\ UNCHANGED added
                        ELSE /\ buckets' = [buckets EXCEPT
                                              ![index] = AddWrite(Flush(bucket, n), entry)]
                             /\ last' = Call("add", Key(entry), NoError)
                             /\ io_fault' = "none"
                             /\ added' = Append(added, entry)
                ELSE /\ buckets' = [buckets EXCEPT ![index] = AddWrite(bucket, entry)]
                     /\ last' = Call("add", Key(entry), NoError)
                     /\ io_fault' = "none"
                     /\ added' = Append(added, entry)

(* ------------------------------ finish -------------------------------- *)

\* Faulty variant: finish() marks the engine read-only without flushing.
Finish_NoFlush ==
    /\ phase = "ingest"
    /\ ~Fatal
    /\ is_finished' = TRUE
    /\ last' = Call("finish", 0, NoError)
    /\ io_fault' = "none"
    /\ UNCHANGED <<config, buckets, added, phase, pipeline>>

\* finish() flushes the buckets in index order.  `fail` is the first bucket whose
\* fwrite falls short (NumBuckets: none does) and n the count that fwrite returns.
\* fflush(bucket.file) may fail for some bucket (flushed false); its return value
\* is discarded, so finish() goes on and returns normally.
Finish ==
    /\ phase = "ingest"
    /\ ~Fatal
    /\ UNCHANGED <<config, added, phase, pipeline>>
    /\ \E fail \in 0 .. NumBuckets :
          IF fail = NumBuckets
          THEN /\ buckets' = [b \in BucketIds |-> Flush(buckets[b], buckets[b].offset)]
               /\ is_finished' = TRUE
               /\ last' = Call("finish", 0, NoError)
               /\ \E flushed \in BOOLEAN : io_fault' = IF flushed THEN "none" ELSE "fflush"
          ELSE \E n \in FwriteReturns(buckets[fail]) :
                 /\ FlushThrows(buckets[fail], n)
                 /\ buckets' = [b \in BucketIds |->
                                   IF b < fail THEN Flush(buckets[b], buckets[b].offset)
                                   ELSE IF b = fail THEN Flush(buckets[b], n)
                                   ELSE buckets[b]]
                 /\ last' = Call("finish", 0, "fwrite() failed")
                 /\ io_fault' = "fwrite"
                 /\ UNCHANGED is_finished

(* ---------------------------- read_bucket ----------------------------- *)

Min(a, b) == IF a < b THEN a ELSE b

\* fread(buffer, T::disk_size, num, file) at file position pos: the number of
\* whole records the file still holds, at most num, and their bytes.
Fread(data, pos, num) ==
    LET count == Min(num, (Len(data) - pos) \div disk_size)
    IN  [count |-> count, bytes |-> SubSeq(data, pos + 1, pos + count * disk_size)]

\* The k-th record (from 0) of a chunk: entry.read(buffer + k * T::disk_size).
ChunkEntry(bytes, k) == EntryRead(SubSeq(bytes, k * disk_size + 1, (k + 1) * disk_size))

\* The partition of a record: Key{}(entry) / M.
Partition(entry, m) == Key(entry) \div m

\* Faulty variant: a block takes M records at most; what would exceed them is
\* left out.
TableInsert_Capped(table, entry, m) ==
    LET p == Partition(entry, m)
    IN  IF p \in DOMAIN table
        THEN (IF Len(table[p]) < m THEN [table EXCEPT ![p] = Append(@, entry)] ELSE table)
        ELSE table @@ (p :> <<entry>>)

\* auto& block = table[Key{}(entry) / M]; block.push_back(entry)
TableInsert(table, entry, m) ==
    LET p == Partition(entry, m)
    IN  IF p \in DOMAIN table
        THEN [table EXCEPT ![p] = Append(@, entry)]
        ELSE table @@ (p :> <<entry>>)

\* The inner loop over the num records of one chunk, from record k on.
RECURSIVE GroupChunk(_, _, _, _, _)
GroupChunk(table, bytes, k, num, m) ==
    IF k >= num THEN table
    ELSE GroupChunk(TableInsert(table, ChunkEntry(bytes, k), m), bytes, k + 1, num, m)

\* Faulty variant: a short fread ends the loop; what was read is grouped and
\* returned as the bucket.
RECURSIVE ReadLoop_Tolerant(_, _, _, _, _)
ReadLoop_Tolerant(bucket, i, pos, table, m) ==
    IF i >= bucket.num_entries THEN [ok |-> TRUE, table |-> table]
    ELSE LET num == Min(N, bucket.num_entries - i)
             got == Fread(bucket.data, pos, num)
             grouped == GroupChunk(table, got.bytes, 0, got.count, m)
         IN  IF got.count # num
             THEN [ok |-> TRUE, table |-> grouped]
             ELSE ReadLoop_Tolerant(bucket, i + num, pos + num * disk_size, grouped, m)

\* The loop for(i = 0; i < bucket.num_entries;): chunks of at most N records are
\* read and grouped; a short fread throws.
RECURSIVE ReadLoop(_, _, _, _, _)
ReadLoop(bucket, i, pos, table, m) ==
    IF i >= bucket.num_entries THEN [ok |-> TRUE, table |-> table]
    ELSE LET num == Min(N, bucket.num_entries - i)
             got == Fread(bucket.data, pos, num)
         IN  IF got.count # num
             THEN [ok |-> FALSE, table |-> table]
             ELSE ReadLoop(bucket, i + num, pos + num * disk_size,
                           GroupChunk(table, got.bytes, 0, num, m), m)

SetMin(S) == CHOOSE x \in S : \A y \in S : x <= y

SetMax(S) == CHOOSE x \in S : \A y \in S : y <= x

\* Faulty variant: the blocks are emitted in another order than the ascending
\* one of std::map (here the descending one), as iterating the unordered table
\* directly could do.
RECURSIVE SortedBlocks_Descending(_)
SortedBlocks_Descending(table) ==
    IF DOMAIN table = {} THEN << >>
    ELSE LET p == SetMax(DOMAIN table)
         IN  <<table[p]>> \o SortedBlocks_Descending([q \in DOMAIN table \ {p} |-> table[q]])

\* std::map sorted; out.emplace_back in the order of its keys: the blocks of the
\* table in ascending partition order.
RECURSIVE SortedBlocks(_)
SortedBlocks(table) ==
    IF DOMAIN table = {} THEN << >>
    ELSE LET p == SetMin(DOMAIN table)
         IN  <<table[p]>> \o SortedBlocks([q \in DOMAIN table \ {p} |-> table[q]])

\* The empty table.
NoTable == [p \in {} |-> << >>]

(* ---------------------------- sort_block ------------------------------ *)

\* The block without its a-th record.
RemoveAt(block, a) == SubSeq(block, 1, a - 1) \o SubSeq(block, a + 1, Len(block))

\* Faulty variant: the block is forwarded as it was grouped, unsorted.
SortBlock_Unsorted(block) == {block}

\* std::sort with the comparator Key(lhs) < Key(rhs): every ordering of the
\* block's records that is ascending by key (the order of records with equal keys
\* is unspecified): a record of least key, then a sorted ordering of the rest.
RECURSIVE SortBlock(_)
SortBlock(block) ==
    IF block = << >> THEN {<< >>}
    ELSE LET least == {a \in 1 .. Len(block) :
                          \A b \in 1 .. Len(block) : ~(Key(block[b]) < Key(block[a]))}
         IN  UNION {{<<block[a]>> \o rest : rest \in SortBlock(RemoveAt(block, a))} :
                    a \in least}

(* ------------------------- read and its pipeline ---------------------- *)

Idle == [active |-> FALSE, input |-> << >>, i |-> 0, items |-> << >>]

\* The work items of a pool that are in state st.
Running(items, st) == {j \in DOMAIN items : items[j].st = st}

\* read(output, M): sort_thread and read_pool are built, nothing is submitted yet.
Read(m) ==
    /\ phase = "ingest"
    /\ ~Fatal
    /\ phase' = "reading"
    /\ last' = Call("read", m, NoError)
    /\ io_fault' = "none"
    /\ M' = m
    /\ UNCHANGED <<config, buckets, is_finished, added,
                   next_take, jobs, sort_queue, cur, output>>

\* Faulty variant: the buckets are submitted from the last to the first.
TakeIndex_Descending(i) == NumBuckets - 1 - i

\* Faulty variant: every second index is submitted twice, the others never.
TakeIndex_Halved(i) == 2 * (i \div 2)

\* The index read() submits in iteration i of its loop.
TakeIndex(i) == i

\* for(i = 0; i < buckets.size(); ++i) read_pool.take_copy(i)
TakeCopy ==
    /\ phase = "reading"
    /\ ~Fatal
    /\ next_take < NumBuckets
    /\ jobs' = Append(jobs, [index |-> TakeIndex(next_take), st |-> "queued", out |-> << >>])
    /\ next_take' = next_take + 1
    /\ UNCHANGED <<config, io_fault, buckets, is_finished, added, last, phase,
                   M, sort_queue, cur, output>>

\* A read_pool worker picks up job j and starts read_bucket(index): the file is
\* closed and reopened for reading; fopen may fail.
ReadBucketOpen(j) ==
    /\ phase = "reading"
    /\ ~Fatal
    /\ j \in 1 .. Len(jobs)
    /\ jobs[j].st = "queued"
    /\ Cardinality(Running(jobs, "running")) < num_threads
    /\ LET index == jobs[j].index
       IN  \E opened \in BOOLEAN :
             IF opened
             THEN /\ buckets' = [buckets EXCEPT ![index].file = "rb"]
                  /\ jobs' = [jobs EXCEPT ![j].st = "running"]
                  /\ UNCHANGED <<last, io_fault>>
             ELSE /\ buckets' = [buckets EXCEPT ![index].file = "null"]
                  /\ last' = Call("read", M, "fopen() failed")
                  /\ io_fault' = "fopen"
                  /\ UNCHANGED jobs
    /\ UNCHANGED <<config, is_finished, added, phase, M, next_take,
                   sort_queue, cur, output>>

\* The rest of read_bucket(index) for job j: the chunks are read and grouped, and
\* the blocks are put in partition order.  An fread may fall short because the
\* file holds fewer than num_entries records or because the read fails (io_ok
\* false).
ReadBucketGroup(j) ==
    /\ phase = "reading"
    /\ ~Fatal
    /\ j \in 1 .. Len(jobs)
    /\ jobs[j].st = "running"
    /\ LET bucket == buckets[jobs[j].index]
           res == ReadLoop(bucket, 0, 0, NoTable, M)
       IN  \E io_ok \in BOOLEAN :
             IF res.ok /\ (io_ok \/ bucket.num_entries = 0)
             THEN /\ jobs' = [jobs EXCEPT ![j].st = "done",
                                          ![j].out = SortedBlocks(res.table)]
                  /\ UNCHANGED <<last, io_fault>>
             ELSE /\ last' = Call("read", M, "fread() failed")
                  /\ io_fault' = "fread"
                  /\ UNCHANGED jobs
    /\ UNCHANGED <<config, buckets, is_finished, added, phase, M, next_take,
                   sort_queue, cur, output>>

\* read_pool hands the result of job j to sort_thread once the result of every
\* job submitted before it has been handed over.
ReadPoolForward(j) ==
    /\ phase = "reading"
    /\ ~Fatal
    /\ j \in 1 .. Len(jobs)
    /\ jobs[j].st = "done"
    /\ \A h \in 1 .. (j - 1) : jobs[h].st = "sent"
    /\ sort_queue' = Append(sort_queue, jobs[j].out)
    /\ jobs' = [jobs EXCEPT ![j].st = "sent", ![j].out = << >>]
    /\ UNCHANGED <<config, io_fault, buckets, is_finished, added, last, phase, M, next_take,
                   cur, output>>

\* sort_thread takes the next bucket result: sort_bucket(input, output) starts
\* and builds its sort_pool.
SortBucketBegin ==
    /\ phase = "reading"
    /\ ~Fatal
    /\ ~cur.active
    /\ sort_queue # << >>
    /\ cur' = [active |-> TRUE, input |-> Head(sort_queue), i |-> 0, items |-> << >>]
    /\ sort_queue' = Tail(sort_queue)
    /\ UNCHANGED <<config, io_fault, buckets, is_finished, added, last, phase, M, next_take,
                   jobs, output>>

\* out.is_begin = (i == 0)
IsBegin(i, size) == i = 0

\* Faulty variant: the last block is tested for with i == input.size().
IsEnd_OffByOne(i, size) == i = size

\* out.is_end = (i + 1 == input.size())
IsEnd(i, size) == i + 1 = size

\* One iteration of sort_bucket's loop: block i is tagged, moved out of the input
\* and given to the sort_pool.
SortBucketTake ==
    /\ phase = "reading"
    /\ ~Fatal
    /\ cur.active
    /\ cur.i < Len(cur.input)
    /\ LET out == [is_begin |-> IsBegin(cur.i, Len(cur.input)),
                   is_end   |-> IsEnd(cur.i, Len(cur.input)),
                   block    |-> cur.input[cur.i + 1]]
       IN  cur' = [cur EXCEPT !.input[cur.i + 1] = << >>,
                              !.i = @ + 1,
                              !.items = Append(@, [st |-> "queued", out |-> out])]
    /\ UNCHANGED <<config, io_fault, buckets, is_finished, added, last, phase, M, next_take,
                   jobs, sort_queue, output>>

\* A sort_pool worker picks up item k: sort_block(input, out) runs.
SortBlockBegin(k) ==
    /\ phase = "reading"
    /\ ~Fatal
    /\ cur.active
    /\ k \in 1 .. Len(cur.items)
    /\ cur.items[k].st = "queued"
    /\ Cardinality(Running(cur.items, "sorting")) < num_threads
    /\ cur' = [cur EXCEPT !.items[k].st = "sorting"]
    /\ UNCHANGED <<config, io_fault, buckets, is_finished, added, last, phase, M, next_take,
                   jobs, sort_queue, output>>

\* sort_block returns: the block is sorted and moved to the result.
SortBlockEnd(k) ==
    /\ phase = "reading"
    /\ ~Fatal
    /\ cur.active
    /\ k \in 1 .. Len(cur.items)
    /\ cur.items[k].st = "sorting"
    /\ \E sorted \in SortBlock(cur.items[k].out.block) :
          cur' = [cur EXCEPT !.items[k] =
                     [st |-> "sorted", out |-> [cur.items[k].out EXCEPT !.block = sorted]]]
    /\ UNCHANGED <<config, io_fault, buckets, is_finished, added, last, phase, M, next_take,
                   jobs, sort_queue, output>>

\* sort_pool forwards a sorted item to the downstream consumer once every item
\* submitted before it has been forwarded.
SortPoolForward(k) ==
    /\ phase = "reading"
    /\ ~Fatal
    /\ cur.active
    /\ k \in 1 .. Len(cur.items)
    /\ cur.items[k].st = "sorted"
    /\ \A j \in 1 .. (k - 1) : cur.items[j].st = "sent"
    /\ output' = Append(output, cur.items[k].out)
    /\ cur' = [cur EXCEPT !.items[k].st = "sent"]
    /\ UNCHANGED <<config, io_fault, buckets, is_finished, added, last, phase, M, next_take,
                   jobs, sort_queue>>

\* Faulty variant: sort_bucket does not wait for its pool.
SortPoolWait_None == TRUE

\* sort_pool.wait(): every item given to the pool has been forwarded.
SortPoolWait == \A k \in 1 .. Len(cur.items) : cur.items[k].st = "sent"

\* sort_bucket returns after its loop and sort_pool.wait().
SortBucketEnd ==
    /\ phase = "reading"
    /\ ~Fatal
    /\ cur.active
    /\ cur.i = Len(cur.input)
    /\ SortPoolWait
    /\ cur' = Idle
    /\ UNCHANGED <<config, io_fault, buckets, is_finished, added, last, phase, M, next_take,
                   jobs, sort_queue, output>>

\* read() returns: its loop is over and the destructors of read_pool and of
\* sort_thread have waited for their work to drain.
ReadReturn ==
    /\ phase = "reading"
    /\ ~Fatal
    /\ next_take = NumBuckets
    /\ \A j \in 1 .. Len(jobs) : jobs[j].st = "sent"
    /\ sort_queue = << >>
    /\ ~cur.active
    /\ phase' = "done"
    /\ UNCHANGED <<config, io_fault, buckets, is_finished, added, last, M, next_take,
                   jobs, sort_queue, cur, output>>

(* ------------------------------- clear -------------------------------- *)

\* What fclose(nullptr), undefined behaviour, may do: return having done nothing,
\* or end the process.
FcloseNull == {"returns", "crash"}

\* fclose(bucket.file); bucket.file = nullptr; std::remove(bucket.file_name.c_str())
ClearBucket(bucket) == [bucket EXCEPT !.file = "null", !.exists = FALSE, !.data = << >>]

\* clear() goes through the buckets in index order.  It tests no handle for
\* nullptr: on the first bucket whose handle is nullptr fclose(nullptr) is called.
Clear ==
    /\ phase \in {"ingest", "done", "cleared"}
    /\ ~Fatal
    /\ io_fault' = "none"
    /\ UNCHANGED <<config, is_finished, added, pipeline>>
    /\ LET nulls == {b \in BucketIds : buckets[b].file = "null"}
       IN  \E ub \in FcloseNull :
             IF nulls # {} /\ ub = "crash"
             THEN /\ buckets' = [b \in BucketIds |->
                                   IF b < SetMin(nulls) THEN ClearBucket(buckets[b])
                                   ELSE buckets[b]]
                  /\ phase' = "crashed"
                  /\ last' = Call("clear", 0, "crash")
             ELSE /\ buckets' = [b \in BucketIds |-> ClearBucket(buckets[b])]
                  /\ phase' = "cleared"
                  /\ last' = Call("clear", 0, NoError)

\* clear() has been called: the bucket files are gone.
Cleared == phase \in {"cleared", "crashed"}

(* --------------------------- specification ---------------------------- *)

\* The constructor opens the bucket files in index order; `opened` is the number
\* of files it could open.  If an fopen fails it throws "fopen() failed".
Init ==
    /\ key_size \in KeySizes
    /\ log_num_buckets \in LogNumBuckets
    /\ num_threads \in NumThreads
    /\ \E opened \in 0 .. Pow2(log_num_buckets) :
          /\ buckets = [b \in 0 .. (Pow2(log_num_buckets) - 1) |->
                           IF b < opened THEN NewBucket ELSE UnopenedBucket]
          /\ last = Call("construct", 0,
                         IF opened = Pow2(log_num_buckets) THEN NoError ELSE "fopen() failed")
          /\ io_fault = IF opened = Pow2(log_num_buckets) THEN "none" ELSE "fopen"
    /\ is_finished = FALSE
    /\ added = << >>
    /\ phase = "ingest"
    /\ M = 0
    /\ next_take = 0
    /\ jobs = << >>
    /\ sort_queue = << >>
    /\ cur = Idle
    /\ output = << >>

\* The caller adds at most MaxAdds records; the record's id is its serial number.
Next ==
    \/ \E k \in CallerKeys :
          /\ is_finished \/ Len(added) < MaxAdds
          /\ Add([key |-> k, id |-> Len(added) + 1])
    \/ Finish
    \/ \E m \in Ms : Read(m)
    \/ TakeCopy
    \/ \E j \in 1 .. Len(jobs) : ReadBucketOpen(j)
    \/ \E j \in 1 .. Len(jobs) : ReadBucketGroup(j)
    \/ \E j \in 1 .. Len(jobs) : ReadPoolForward(j)
    \/ SortBucketBegin
    \/ SortBucketTake
    \/ \E k \in 1 .. Len(cur.items) : SortBlockBegin(k)
    \/ \E k \in 1 .. Len(cur.items) : SortBlockEnd(k)
    \/ \E k \in 1 .. Len(cur.items) : SortPoolForward(k)
    \/ SortBucketEnd
    \/ ReadReturn
    \/ Clear

Spec == Init /\ [][Next]_vars

\* A step of read(): of its take_copy loop, of a read_pool worker, of sort_thread
\* or of a sort_pool worker.
ReadStep ==
    \/ TakeCopy
    \/ \E j \in 1 .. Len(jobs) : ReadBucketOpen(j) \/ ReadBucketGroup(j) \/ ReadPoolForward(j)
    \/ SortBucketBegin
    \/ SortBucketTake
    \/ \E k \in 1 .. Len(cur.items) : SortBlockBegin(k) \/ SortBlockEnd(k) \/ SortPoolForward(k)
    \/ SortBucketEnd
    \/ ReadReturn

\* The threads of read() are scheduled: while one of them can take a step, a step
\* of read() is eventually taken.  Nothing obliges the caller to call again.
FairSpec == Spec /\ WF_vars(ReadStep)


(* ------------------- a run with 8-bit keys, 4 buckets ------------------ *)

\* DiskSort(key_size = 8, log_num_buckets = 2, ...); add() of the keys 5, 130,
\* 200, 6, 199 in this order; finish(); read(output, M = 64).
ScenarioKeySize == 8
ScenarioLogNumBuckets == 2
ScenarioKeys == <<5, 130, 200, 6, 199>>
ScenarioM == 64

ScenarioInit ==
    /\ key_size = ScenarioKeySize
    /\ log_num_buckets = ScenarioLogNumBuckets
    /\ num_threads \in NumThreads
    /\ buckets = [b \in 0 .. (Pow2(ScenarioLogNumBuckets) - 1) |-> NewBucket]
    /\ is_finished = FALSE
    /\ added = << >>
    /\ last = Call("construct", 0, NoError)
    /\ io_fault = "none"
    /\ phase = "ingest"
    /\ M = 0
    /\ next_take = 0
    /\ jobs = << >>
    /\ sort_queue = << >>
    /\ cur = Idle
    /\ output = << >>

ScenarioNext ==
    \/ /\ Len(added) < Len(ScenarioKeys)
       /\ Add([key |-> ScenarioKeys[Len(added) + 1], id |-> Len(added) + 1])
    \/ /\ Len(added) = Len(ScenarioKeys)
       /\ ~is_finished
       /\ Finish
    \/ /\ is_finished
       /\ Read(ScenarioM)
    \/ ReadStep

ScenarioSpec == ScenarioInit /\ [][ScenarioNext]_vars

(* ------------- add() for every key size and bucket count --------------- *)

\* DiskSort(key_size, log_num_buckets, ...) for every key_size up to MaxKeySize
\* and every log_num_buckets up to key_size.
IndexInit ==
    /\ key_size \in 1 .. MaxKeySize
    /\ log_num_buckets \in 0 .. key_size
    /\ num_threads = 1
    /\ buckets = [b \in 0 .. (Pow2(log_num_buckets) - 1) |-> NewBucket]
    /\ is_finished = FALSE
    /\ added = << >>
    /\ last = Call("construct", 0, NoError)
    /\ io_fault = "none"
    /\ phase = "ingest"
    /\ M = 0
    /\ next_take = 0
    /\ jobs = << >>
    /\ sort_queue = << >>
    /\ cur = Idle
    /\ output = << >>

\* The caller adds up to MaxIndexAdds records of any keys.
IndexNext ==
    \E k \in CallerKeys :
        /\ Len(added) < MaxIndexAdds
        /\ Add([key |-> k, id |-> Len(added) + 1])

IndexSpec == IndexInit /\ [][IndexNext]_vars

(* ----------------------- add() and finish() only ----------------------- *)

\* The caller adds up to MaxIngestAdds records and calls finish().
IngestNext ==
    \/ \E k \in CallerKeys :
          /\ Len(added) < MaxIngestAdds
          /\ Add([key |-> k, id |-> Len(added) + 1])
    \/ Finish

IngestSpec == Init /\ [][IngestNext]_vars

(* ------------------------------- claims ------------------------------- *)

\* The bucket a key belongs to: its high log_num_buckets bits of key_size.
BucketOfKey(k) == k \div (2 ^ (key_size - log_num_buckets))

\* The records of a sequence of output units, in forwarding order.
RECURSIVE Records(_)
Records(units) ==
    IF units = << >> THEN << >> ELSE Head(units).block \o Records(Tail(units))

\* The multiset of the elements of a sequence.
BagOf(s) == [x \in {s[a] : a \in 1 .. Len(s)} |-> Cardinality({a \in 1 .. Len(s) : s[a] = x})]

\* The bucket and the partition (key / M) of a forwarded unit; a unit is never
\* empty, so its first record decides both.
UnitBucket(u) == BucketOfKey(u.block[1].key)
UnitPartition(u) == u.block[1].key \div M

\* C1: at every moment of read(), for every thread count and every schedule of
\* the workers, the records forwarded so far, in forwarding order, have
\* non-decreasing keys.
C1_OutputNonDecreasing ==
    LET recs == Records(output)
    IN  \A a, b \in 1 .. Len(recs) : a < b => recs[a].key <= recs[b].key

\* C1 witness: read() has returned with two threads, having forwarded several
\* units holding three records that were added in descending key order.
C1_Witness ==
    /\ phase = "done"
    /\ num_threads = 2
    /\ Len(output) >= 2
    /\ Len(Records(output)) >= 3
    /\ added[1].key > added[2].key /\ added[2].key > added[3].key

\* C2: when read() has returned, the multiset of forwarded records equals the
\* multiset of the records add() accepted.
C2_OutputIsPermutation ==
    phase = "done" => BagOf(Records(output)) = BagOf(added)

\* C2 witness: read() has returned where one bucket held more records than one
\* buffer and one read chunk hold, and another bucket was empty.
C2_Witness ==
    /\ phase = "done"
    /\ \E b \in BucketIds : /\ buckets[b].num_entries * disk_size > BufSize
                            /\ buckets[b].num_entries > N
    /\ \E b \in BucketIds : buckets[b].num_entries = 0
    /\ Len(Records(output)) >= 3

\* The bytes a bucket holds: its file followed by the filled part of its buffer.
Contents(bucket) == bucket.data \o SubSeq(bucket.buffer, 1, bucket.offset)

\* C3: every step in which add() accepts a record appends the record's bytes to
\* the bucket key >> (key_size - log_num_buckets), increments that bucket's
\* record count by one, and changes no other bucket's contents or count.
C3_AddTargetsBucket ==
    [][added' # added =>
        LET e == added'[Len(added')]
            index == BucketOfKey(e.key)
        IN  /\ added' = Append(added, e)
            /\ index \in DOMAIN buckets
            /\ Contents(buckets'[index]) = Contents(buckets[index]) \o EntryWrite(e)
            /\ buckets'[index].num_entries = buckets[index].num_entries + 1
            /\ \A b \in DOMAIN buckets \ {index} :
                  /\ Contents(buckets'[b]) = Contents(buckets[b])
                  /\ buckets'[b].num_entries = buckets[b].num_entries]_vars

\* C3 witness: add() has just accepted a record of a bucket other than bucket 0,
\* after an overflow flush of that bucket.
C3_Witness ==
    /\ last.op = "add" /\ last.err = NoError
    /\ BucketOfKey(last.key) >= 1
    /\ buckets[BucketOfKey(last.key)].data # << >>
    /\ buckets[BucketOfKey(last.key)].offset > 0

\* C4: in the forwarding order no unit of a bucket j comes before a unit of a
\* bucket i < j: the records of different buckets are never interleaved.
C4_BucketsInOrder ==
    \A p, q \in 1 .. Len(output) :
        p < q => \A a \in 1 .. Len(output[p].block), b \in 1 .. Len(output[q].block) :
                    BucketOfKey(output[p].block[a].key) <= BucketOfKey(output[q].block[b].key)

\* C4 witness: read() has returned with two threads and units of three buckets.
C4_Witness ==
    /\ phase = "done"
    /\ num_threads = 2
    /\ Cardinality({UnitBucket(output[p]) : p \in 1 .. Len(output)}) >= 3

\* C5: every forwarded unit holds records of one single key / M, and the units
\* of one bucket are forwarded in strictly ascending key / M order.
C5_PartitionsAscending ==
    /\ \A p \in 1 .. Len(output) : \A a, b \in 1 .. Len(output[p].block) :
          output[p].block[a].key \div M = output[p].block[b].key \div M
    /\ \A p, q \in 1 .. Len(output) :
          p < q /\ UnitBucket(output[p]) = UnitBucket(output[q])
             => UnitPartition(output[p]) < UnitPartition(output[q])

\* C5 witness: with two threads, two units of one bucket have been forwarded,
\* one of them holding records of different keys.
C5_Witness ==
    /\ num_threads = 2
    /\ \E p, q \in 1 .. Len(output) :
          /\ p < q
          /\ UnitBucket(output[p]) = UnitBucket(output[q])
          /\ \E a, b \in 1 .. Len(output[p].block) :
                output[p].block[a].key # output[p].block[b].key

\* C6: after finish(), every add() throws "read only" and leaves every bucket
\* (buffer, offset, num_entries, file) as it was.
C6_AddAfterFinish ==
    [][is_finished /\ last'.op = "add" =>
          /\ last'.err = "read only"
          /\ buckets' = buckets
          /\ added' = added]_vars

\* C6 witness: an add() was rejected as "read only" on an engine holding records.
C6_Witness ==
    /\ is_finished
    /\ last.op = "add" /\ last.err = "read only"
    /\ \E b \in BucketIds : buckets[b].num_entries > 0

\* C7 as stated: every add() of a key whose index is not below 2^log_num_buckets
\* throws "index out of range" and changes no bucket.
C7_AsStated ==
    [][last'.op = "add" /\ BucketOfKey(last'.key) >= 2 ^ log_num_buckets =>
          /\ last'.err = "index out of range"
          /\ buckets' = buckets]_vars

\* C7 amended: before finish(), every add() of a key whose index is not below
\* 2^log_num_buckets throws "index out of range" and changes no bucket; after
\* finish() such an add() throws "read only" and changes no bucket either.
C7_RangeError ==
    [][last'.op = "add" /\ BucketOfKey(last'.key) >= 2 ^ log_num_buckets =>
          /\ last'.err = IF is_finished THEN "read only" ELSE "index out of range"
          /\ buckets' = buckets
          /\ added' = added]_vars

\* C7 witness: an add() was rejected as out of range on an engine holding records.
C7_Witness ==
    /\ last.op = "add" /\ last.err = "index out of range"
    /\ BucketOfKey(last.key) >= 2 ^ log_num_buckets
    /\ \E b \in BucketIds : buckets[b].num_entries > 0

\* The positions in the output of the units of bucket b.
UnitsOf(b) == {p \in 1 .. Len(output) : UnitBucket(output[p]) = b}

\* C8: among the units forwarded for a bucket, is_begin is set on the first one
\* and on no other, is_end is set on no unit but the last one, and once the
\* bucket is complete (a later unit follows, or read() has returned) its last
\* unit has is_end set.
C8_BeginEndFlags ==
    \A b \in BucketIds :
        LET ps == UnitsOf(b)
        IN  ps # {} =>
              /\ \A p \in ps : output[p].is_begin <=> p = SetMin(ps)
              /\ \A p \in ps : output[p].is_end => p = SetMax(ps)
              /\ (phase = "done" \/ SetMax(ps) < Len(output)) => output[SetMax(ps)].is_end

\* C8 witness: read() has returned; one bucket was forwarded as a single unit
\* with both flags, another as several units.
C8_Witness ==
    /\ phase = "done"
    /\ \E b \in BucketIds : Cardinality(UnitsOf(b)) >= 2
    /\ \E p \in 1 .. Len(output) : output[p].is_begin /\ output[p].is_end
    /\ \E p \in 1 .. Len(output) : output[p].is_begin /\ ~output[p].is_end
    /\ \E p \in 1 .. Len(output) : ~output[p].is_begin /\ output[p].is_end

\* The bytes of the accepted records that belong to bucket b, in add() order.
RECURSIVE BytesFor(_, _)
BytesFor(b, recs) ==
    IF recs = << >> THEN << >>
    ELSE (IF BucketOfKey(Head(recs).key) = b THEN EntryWrite(Head(recs)) ELSE << >>)
         \o BytesFor(b, Tail(recs))

\* C9: in every state reached by add() and finish() (until clear() removes the
\* files), unless a short fwrite has aborted the run, for every bucket the bytes
\* written to its file plus its fill offset
\* equal num_entries * disk_size, and file and buffer together hold exactly the
\* bytes of the records added to it, in order (no gap, nothing twice); after
\* finish() the file's length is num_entries * disk_size.
C9_FileBytes ==
    \A b \in BucketIds :
        /\ last.err # "fwrite() failed" /\ ~Cleared =>
              /\ Len(buckets[b].data) + buckets[b].offset = buckets[b].num_entries * disk_size
              /\ Contents(buckets[b]) = BytesFor(b, added)
        /\ is_finished /\ ~Cleared => Len(buckets[b].data) = buckets[b].num_entries * disk_size

\* C9 witness: finish() has returned and a bucket's file is longer than the
\* buffer, so an overflow flush happened while records were added.
C9_Witness ==
    /\ is_finished
    /\ \E b \in BucketIds : Len(buckets[b].data) > BufSize

\* C10: once the engine is read-only every bucket's fill offset is 0 and its
\* file holds all records added to it (until clear() removes the file); the engine
\* is not read-only when
\* constructed, only a finish() that returns normally makes it read-only, every
\* such finish() does, and it stays read-only.
C10_Finish ==
    /\ [](is_finished =>
             \A b \in BucketIds : /\ buckets[b].offset = 0
                                  /\ Cleared \/ buckets[b].data = BytesFor(b, added))
    /\ [](last.op = "construct" => ~is_finished)
    /\ [][is_finished' # is_finished =>
             ~is_finished /\ last'.op = "finish" /\ last'.err = NoError]_vars
    /\ [][last'.op = "finish" /\ last'.err = NoError => is_finished']_vars

\* C10 witness: finish() has just returned on an engine with records in two
\* buckets, one of them larger than its buffer.
C10_Witness ==
    /\ is_finished
    /\ last.op = "finish"
    /\ Cardinality({b \in BucketIds : buckets[b].num_entries > 0}) >= 2
    /\ \E b \in BucketIds : Len(buckets[b].data) >= disk_size

\* C11: clear() after finish() removes every bucket file and leaves no bucket
\* with an open handle, and a clear() called again in that state completes
\* without error and leaves the state unchanged.
C11_ClearIdempotent ==
    /\ [](is_finished /\ last.op = "clear" =>
             \A b \in BucketIds : ~buckets[b].exists /\ buckets[b].file = "null")
    /\ [][is_finished /\ phase = "cleared" =>
             /\ last'.err = NoError
             /\ phase' = "cleared"
             /\ buckets' = buckets]_vars

\* C11: the first clear() after finish() and read() has returned on an engine
\* that held records.
C11_Witness ==
    /\ is_finished
    /\ phase = "cleared"
    /\ output # << >>
    /\ \A b \in BucketIds : ~buckets[b].exists /\ buckets[b].file = "null"

\* The number of records forwarded in the units of bucket b.
RECURSIVE ForwardedOf(_, _)
ForwardedOf(b, units) ==
    IF units = << >> THEN 0
    ELSE (IF UnitBucket(Head(units)) = b THEN Len(Head(units).block) ELSE 0)
         + ForwardedOf(b, Tail(units))

\* C12: unless an I/O error aborts it, a read() that was called returns; when it
\* has returned every bucket 0 .. 2^log_num_buckets - 1 has been submitted and
\* read, no block is left in the pipeline and all records of every bucket have
\* been forwarded; and nothing is forwarded after read() has returned.
C12_ReadTerminates ==
    /\ (phase = "reading") ~> (phase = "done" \/ Fatal)
    /\ [](phase = "done" =>
             /\ {jobs[j].index : j \in 1 .. Len(jobs)} = BucketIds
             /\ \A j \in 1 .. Len(jobs) : jobs[j].st = "sent"
             /\ sort_queue = << >> /\ cur = Idle
             /\ \A b \in BucketIds : ForwardedOf(b, output) = buckets[b].num_entries)
    /\ [][phase # "reading" => output' = output]_vars

\* C12 witness: read() has returned with two threads on four buckets, having
\* forwarded several units.
C12_Witness ==
    /\ phase = "done"
    /\ num_threads = 2
    /\ NumBuckets = 4
    /\ Len(output) >= 3

\* C13: no error is silently swallowed: whenever an I/O step of the last call
\* failed or fell short (fopen in the constructor or read_bucket, fwrite in
\* flush, fflush in finish, fread in read_bucket), that call has thrown an I/O
\* error to its caller; it has not returned normally.
C13_NoErrorSwallowed ==
    io_fault # "none" => last.err \in IOErrors

\* C13: the failures that are reported: a short fwrite in flush has made add()
\* or finish() throw.
C13_Witness ==
    /\ io_fault = "fwrite"
    /\ last.err = "fwrite() failed"
    /\ last.op \in {"add", "finish"}

\* The keys of a sequence of records.
KeysOf(recs) == [a \in 1 .. Len(recs) |-> recs[a].key]

\* The bytes of the first k accepted records that the list `where` of bucket
\* indices, one per record, puts in bucket b.
RECURSIVE BytesAt(_, _, _)
BytesAt(b, where, k) ==
    IF k = 0 THEN << >>
    ELSE BytesAt(b, where, k - 1) \o (IF where[k] = b THEN EntryWrite(added[k]) ELSE << >>)

\* C14: with key_size 8 and log_num_buckets 2, the records with keys 5, 130,
\* 200, 6, 199 are put in the buckets 0, 2, 3, 0, 3; after finish() and
\* read(M = 64) the forwarded keys are exactly 5, 6, 130, 199, 200, the first
\* unit (of bucket 0) has is_begin, the last unit (of bucket 3) has is_end, and
\* the empty bucket 1 has no unit.
C14_Scenario ==
    /\ last.err # "fwrite() failed" =>
          \A b \in BucketIds :
              Contents(buckets[b]) = BytesAt(b, <<0, 2, 3, 0, 3>>, Len(added))
    /\ phase = "done" =>
          /\ KeysOf(Records(output)) = <<5, 6, 130, 199, 200>>
          /\ KeysOf(output[1].block) = <<5, 6>> /\ output[1].is_begin
          /\ KeysOf(output[Len(output)].block) = <<199, 200>> /\ output[Len(output)].is_end
          /\ \A p \in 1 .. Len(output) : \A a \in 1 .. Len(output[p].block) :
                 output[p].block[a].key \notin 64 .. 127
          /\ Len(output) = 3

\* C14 witness: the five records were added, finish() and read(M = 64) have
\* returned.
C14_Witness ==
    /\ phase = "done"
    /\ KeysOf(added) = ScenarioKeys
    /\ M = ScenarioM
    /\ Len(output) = 3

\* C15: in every reachable state every bucket's fill offset is at most the
\* buffer's capacity, and every add() that accepts a record writes its
\* disk_size bytes at a position at which they end within the buffer.
C15_OffsetWithinBuffer ==
    /\ [](\A b \in BucketIds : buckets[b].offset <= BufSize)
    /\ [][added' # added =>
             \E b \in BucketIds :
                LET pos == buckets'[b].offset - disk_size
                IN  /\ buckets'[b].num_entries = buckets[b].num_entries + 1
                    /\ buckets'[b].offset >= disk_size
                    /\ pos \in {0, buckets[b].offset}
                    /\ pos + disk_size <= BufSize
                    /\ SubSeq(buckets'[b].buffer, pos + 1, pos + disk_size)
                          = EntryWrite(added'[Len(added')])]_vars

\* C15 witness: add() has just accepted a record for a bucket whose buffer could
\* not take it: the buffer was flushed and the record written at its start.
C15_Witness ==
    /\ last.op = "add" /\ last.err = NoError
    /\ \E b \in BucketIds :
          /\ buckets[b].data # << >>
          /\ buckets[b].offset = disk_size
          /\ buckets[b].num_entries * disk_size > BufSize

\* The records of a sequence of blocks, block after block.
RECURSIVE Flatten(_)
Flatten(blocks) ==
    IF blocks = << >> THEN << >> ELSE Head(blocks) \o Flatten(Tail(blocks))

\* The records a read_pool job holds as its result, for all jobs.
RECURSIVE JobRecords(_)
JobRecords(js) ==
    IF js = << >> THEN << >> ELSE Flatten(Head(js).out) \o JobRecords(Tail(js))

\* The records of the bucket results waiting for sort_thread.
RECURSIVE QueueRecords(_)
QueueRecords(q) ==
    IF q = << >> THEN << >> ELSE Flatten(Head(q)) \o QueueRecords(Tail(q))

\* The records of the sort_pool items that are with the pool: not yet forwarded.
RECURSIVE ItemRecords(_)
ItemRecords(items) ==
    IF items = << >> THEN << >>
    ELSE (IF Head(items).st = "sent" THEN << >> ELSE Head(items).out.block)
         \o ItemRecords(Tail(items))

\* Every record that some thread of read() or the consumer holds.
HeldRecords ==
    JobRecords(jobs) \o QueueRecords(sort_queue) \o Flatten(cur.input)
        \o ItemRecords(cur.items) \o Records(output)

\* C16: during read() every bucket index is submitted to the read pool at most
\* once, and exactly once when read() has returned, so no two read workers work
\* on one bucket; and every block is held by one owner only (a read job's
\* result, sort_thread's input, one sort_pool item, or the output): no record is
\* in two of them, so no two sort workers work on the same sub-block.
C16_ExclusiveAccess ==
    /\ \A j, h \in 1 .. Len(jobs) : j # h => jobs[j].index # jobs[h].index
    /\ \A j \in 1 .. Len(jobs) : jobs[j].index \in BucketIds
    /\ phase = "done" => {jobs[j].index : j \in 1 .. Len(jobs)} = BucketIds
    /\ LET held == HeldRecords
       IN  \A a, b \in 1 .. Len(held) : a # b => held[a] # held[b]
    /\ \A k, l \in Running(cur.items, "sorting") :
          k # l => \A a \in 1 .. Len(cur.items[k].out.block),
                      b \in 1 .. Len(cur.items[l].out.block) :
                         cur.items[k].out.block[a] # cur.items[l].out.block[b]

\* C16 witness: a read worker is reading a bucket while two sort workers are
\* sorting two sub-blocks of an earlier bucket.
C16_Witness ==
    /\ Running(jobs, "running") # {}
    /\ Cardinality(Running(cur.items, "sorting")) = 2

\* The keys of the records a bucket holds, parsed from its file and buffer.
StoredKeys(bucket) ==
    {EntryRead(SubSeq(Contents(bucket), (r - 1) * disk_size + 1, r * disk_size)).key :
        r \in 1 .. bucket.num_entries}

\* C17: the bucket index is monotone in the key: for keys k1 <= k2 below
\* 2^key_size the index add() computes for k1 is at most that for k2; and every
\* key stored in a bucket i is smaller than every key stored in a bucket j > i.
C17_IndexMonotone ==
    /\ LET index == [k \in 0 .. (Pow2(key_size) - 1) |-> AddIndex([key |-> k, id |-> 0])]
       IN  \A k1, k2 \in DOMAIN index : k1 <= k2 => index[k1] <= index[k2]
    /\ last.err # "fwrite() failed" =>
          LET stored == [b \in BucketIds |-> StoredKeys(buckets[b])]
          IN  \A i, j \in BucketIds :
                 i < j => \A ki \in stored[i], kj \in stored[j] : ki < kj

\* C17 witness: with keys of at least three bits, the larger of two keys was
\* added first; the two records are stored in different buckets, the first one
\* in the higher bucket.
C17_Witness ==
    /\ key_size >= 3
    /\ Len(added) = 2
    /\ added[1].key > added[2].key
    /\ \E i, j \in BucketIds :
          /\ i < j
          /\ added[1].key \in StoredKeys(buckets[j])
          /\ added[2].key \in StoredKeys(buckets[i])

\* The accepted records of the bucket and partition of unit u.
PartitionOf(u) ==
    {a \in 1 .. Len(added) : /\ BucketOfKey(added[a].key) = UnitBucket(u)
                             /\ added[a].key \div M = UnitPartition(u)}

\* C18: a forwarded sub-block holds all records of its bucket whose key / M is
\* its partition, however many they are: M does not bound its size, and for
\* clustered keys a sub-block of more than M records is forwarded.
C18_BlockNotBoundedByM ==
    \A p \in 1 .. Len(output) :
        /\ Len(output[p].block) = Cardinality(PartitionOf(output[p]))
        /\ \A a \in PartitionOf(output[p]) :
              \E c \in 1 .. Len(output[p].block) : output[p].block[c] = added[a]

\* C18 witness: read() was called with M = 2 and has forwarded a sub-block of
\* three records.
C18_Witness ==
    /\ M = 2
    /\ \E p \in 1 .. Len(output) : Len(output[p].block) > M

\* C19: a step in which add() accepts a record changes only the target bucket:
\* every other bucket (buffer, fill offset, record count, file handle and file
\* contents) and the finished flag are as before, also when the target bucket's
\* buffer is flushed by the call.
C19_AddFrame ==
    [][added' # added =>
          LET index == BucketOfKey(added'[Len(added')].key)
          IN  /\ \A b \in BucketIds \ {index} : buckets'[b] = buckets[b]
              /\ buckets'[index] # buckets[index]
              /\ is_finished' = is_finished
              /\ DOMAIN buckets' = DOMAIN buckets]_vars

\* C19 witness: add() has just accepted a third record for a bucket, flushing
\* its buffer, while another bucket holds a record in its buffer.
C19_Witness ==
    /\ last.op = "add" /\ last.err = NoError
    /\ \E b, c \in BucketIds :
          /\ b # c
          /\ b = BucketOfKey(last.key)
          /\ buckets[b].data # << >> /\ buckets[b].offset = disk_size
          /\ buckets[c].offset > 0 /\ buckets[c].data = << >>

\* The buckets that hold records in their write buffer: records that are not in
\* the file.
Unflushed == {b \in BucketIds : buckets[b].offset > 0}

\* C20: while a bucket holds unflushed records (read() was called without
\* finish()), no read job of that bucket completes, no block of it is handed on
\* or forwarded, not even the flushed part, and read() does not return; such a
\* read() ends with an I/O error.
C20_ReadWithoutFinish ==
    /\ [](\A b \in Unflushed :
             /\ \A j \in 1 .. Len(jobs) :
                   jobs[j].index = b => jobs[j].st \in {"queued", "running"} /\ jobs[j].out = << >>
             /\ \A p \in 1 .. Len(output) : UnitBucket(output[p]) # b
             /\ phase # "done")
    /\ (phase = "reading" /\ Unflushed # {})
          ~> (last.op = "read" /\ last.err \in {"fread() failed", "fopen() failed"})

\* C20 witness: read() was called without finish() on a bucket with records in
\* its file and a record in its buffer; reading the bucket has failed with
\* "fread() failed" and nothing was forwarded.
C20_Witness ==
    /\ ~is_finished
    /\ last.op = "read" /\ last.err = "fread() failed"
    /\ output = << >>
    /\ \E j \in 1 .. Len(jobs) :
          /\ jobs[j].st = "running"
          /\ buckets[jobs[j].index].data # << >>
          /\ buckets[jobs[j].index].offset > 0

=============================================================================
